---- MODULE Spec2Model ----
(***************************************************************************)
(* NeuraTable backend: the tiling engine (image_chunk_iterator.rs), the    *)
(* per-image pipeline (image_processor.rs) and the model-shape negotiation *)
(* of the runner (model_runner.rs).                                        *)
(*                                                                         *)
(* Tensors are functions over 0-based index ranges, t[c][y][x] for the     *)
(* (channel, height, width) layout and t[y][x][c] for the pixel layout.    *)
(* The input image and the generator's tensor, which nothing writes after  *)
(* padding, are held by their shape and read element by element through    *)
(* ImagePixel, InputTensorAt and TensorAt.                                 *)
(* An f32 value v is held as the integer Unit * v: every value the code    *)
(* produces from a pixel by halving at most once per spatial axis is then  *)
(* an integer, so x * 0.5 is exact integer division by two, as it is exact *)
(* in binary floating point.                                               *)
(***************************************************************************)
EXTENDS Integers, Sequences, FiniteSets, TLC

\* ------------------------------------------------------------- bounds
MaxChunk == 5
MaxPad == 2
MaxOverlap == 2
MaxRes == 5
MaxNone == 2

\* ---------------------------------------------------- program constants
NumChannels == 3
MaxPixel == 255
DefaultChunksize == 440
DefaultOverlap == 6
DefaultChunkPadding == 60

\* 1.0 in the fixed-point reading of f32 (two halvings stay integral)
Unit == 2 * 2

\* the iterators a caller holds over one finalized generator
Iterators == {1, 2}

ImageKinds == {1, 2}
ModelKinds == {"identity", "invert"}

\* The configuration of the end-to-end scenario of the specification
E2EConfig ==
    [width |-> 100, height |-> 100, chunk_size |-> 50, chunk_padding |-> 10,
     chunk_overlap |-> 4]

VARIABLES
    \* ImageProcessor and the arguments of process_image
    image,                  \* the ImageBuffer handed to process_image
    model_kind,             \* what the inference session computes
    chunk_size,             \* ImageProcessor.chunk_size
    proc_chunk_padding,     \* ImageProcessor.chunk_padding
    chunk_overlap,          \* ImageProcessor.chunk_overlap
    \* ImageChunkGenerator<M>
    image_data,
    chunksize,
    overlap,
    chunk_padding,
    input_image_resolution,
    input_image_padding,
    marker,                 \* the type state M: "Builder" | "Finalized" | "Dropped"
    finalize_result,        \* what finalize() returned
    \* ImageChunkIterator instances
    iters,
    \* locals of process_image
    pc,
    chunk,                  \* the ImageChunk of the current loop turn
    input_data,             \* scratch buffer handed to the session
    result_tensor,
    usable,                 \* shape of usable_output_chunk, a view into result_tensor
    output_image,           \* accumulator, [y][x][c]
    returned,               \* the value process_image returned
    \* ModelRunner::new
    graph,                  \* the parsed model's graph: declared inputs and outputs
    force_tract,
    load_pc,
    stream_pos,             \* position of the reader the model bytes come from
    graph_input,            \* (input_shape, input_name, model_channel_order)
    matching_output,        \* (output_name, model_scale)
    runner_chunksize,
    new_result,             \* what ModelRunner::new returned
    \* ModelValueRange
    range_text,             \* the text handed to from_str, a sequence of characters
    range_pc,
    range,                  \* what from_str returned
    pixel_value,            \* the u16 handed to pixel_value_to_model
    model_value,            \* the float being converted
    \* ModelRunner::process_chunk
    runner,                 \* model_channel_order, model_scale, backend, chunksize
    backend_model,          \* what the loaded network computes
    input_scratchpad,       \* the backend's scratch buffer, in model order
    chunk_pc,
    tile,                   \* the (C, H, W) input of the current call
    model_output_shape,
    model_output,           \* what the backend returned
    chunk_result,           \* what process_chunk returned
    calls                   \* process_chunk calls finished

genvars ==
    <<image_data, chunksize, overlap, chunk_padding, input_image_resolution,
      input_image_padding, marker>>

procvars == <<image, model_kind, chunk_size, proc_chunk_padding, chunk_overlap>>

loopvars == <<chunk, input_data, result_tensor, usable, output_image, returned>>

loadvars ==
    <<graph, force_tract, load_pc, stream_pos, graph_input, matching_output,
      runner_chunksize, new_result>>

rangevars == <<range_text, range_pc, range, pixel_value, model_value>>

chunkvars ==
    <<runner, backend_model, input_scratchpad, chunk_pc, tile, model_output_shape,
      model_output, chunk_result, calls>>

vars ==
    <<procvars, genvars, finalize_result, iters, pc, loopvars, loadvars, rangevars,
      chunkvars>>

\* ------------------------------------------------------------ helpers
Min(a, b) == IF a < b THEN a ELSE b

Zeros3(d0, d1, d2) ==
    [i \in 0..(d0 - 1) |-> [j \in 0..(d1 - 1) |-> [k \in 0..(d2 - 1) |-> 0]]]

Dim(t) == Cardinality(DOMAIN t)

NoTensor == <<>>
NoChunk == [some |-> FALSE]
NoUsable == [height |-> 0, width |-> 0]
NoResult == [kind |-> "none"]

\* The ImageBuffer handed to process_image: its dimensions and, by kind, its
\* content; ImagePixel is the u8 sample of channel c at column x of row y
ImagePixel(img, y, x, c) ==
    (1 + img.kind * (c + NumChannels * (x + img.width * y))) % (MaxPixel + 1)

\* process_image: element (c, y, x) of
\* from_shape_vec((height, width, 3)).mapv(v / 255).permuted_axes([2, 0, 1])
InputTensorAt(img, c, y, x) == Unit * ImagePixel(img, y, x, c)

ToImageData(img) == [shape |-> <<NumChannels, img.height, img.width>>, padding |-> 0]

\* PadMode::Reflect: index into an axis of length n of position i of the padded
\* axis, the mirror taken about the first and the last element
ReflectIndex(i, n) ==
    IF n = 1 THEN 0
    ELSE LET period == 2 * (n - 1)
             r == i % period
         IN IF r < n THEN r ELSE period - r

\* Element (c, y, x) of the generator's tensor t, which is the input tensor
\* reflect-padded by t.padding on both spatial axes
TensorAt(t, img, c, y, x) ==
    InputTensorAt(img, c, ReflectIndex(y - t.padding, img.height),
                  ReflectIndex(x - t.padding, img.width))

\* ndarray_ndimage::pad(&image_data, [[0,0],[p,p],[p,p]], PadMode::Reflect)
PadReflect(t, p) ==
    [shape |-> <<t.shape[1], t.shape[2] + 2 * p, t.shape[3] + 2 * p>>,
     padding |-> t.padding + p]

\* ---------------------------------------------- ImageChunkGeneratorBuilder
\* Init: process_image has converted the image and called new_from_array
Configs ==
    [width : 1..MaxRes, height : 1..MaxRes, chunk_size : 1..MaxChunk,
     chunk_padding : 0..MaxPad, chunk_overlap : 0..MaxOverlap]

InitWith(cfg, kind, mk) ==
    /\ image = [kind |-> kind, width |-> cfg.width, height |-> cfg.height]
    /\ model_kind = mk
    /\ chunk_size = cfg.chunk_size
    /\ proc_chunk_padding = cfg.chunk_padding
    /\ chunk_overlap = cfg.chunk_overlap
    /\ image_data = ToImageData(image)
    /\ chunksize = DefaultChunksize
    /\ overlap = DefaultOverlap
    /\ chunk_padding = DefaultChunkPadding
    /\ input_image_resolution = <<0, 0>>
    /\ input_image_padding = <<0, 0>>
    /\ marker = "Builder"
    /\ finalize_result = NoResult
    /\ iters = [i \in Iterators |->
                  [live |-> FALSE, current_coords |-> <<0, 0>>, emitted |-> <<>>,
                   nones |-> 0]]
    /\ pc = "new"
    /\ chunk = NoChunk
    /\ input_data = NoTensor
    /\ result_tensor = NoTensor
    /\ usable = NoUsable
    /\ output_image = NoTensor
    /\ returned = NoResult

\* No model is being loaded
LoadIdle ==
    /\ graph = [inputs |-> <<>>, outputs |-> <<>>]
    /\ force_tract = FALSE
    /\ load_pc = "idle"
    /\ stream_pos = "start"
    /\ graph_input = NoResult
    /\ matching_output = NoResult
    /\ runner_chunksize = NoResult
    /\ new_result = NoResult

\* No value range is being parsed or applied
RangeIdle ==
    /\ range_text = <<>>
    /\ range_pc = "idle"
    /\ range = NoResult
    /\ pixel_value = 0
    /\ model_value = NoResult

\* No runner is processing chunks
ChunkIdle ==
    /\ runner = NoResult
    /\ backend_model = "none"
    /\ input_scratchpad = NoTensor
    /\ chunk_pc = "idle"
    /\ tile = NoTensor
    /\ model_output_shape = <<>>
    /\ model_output = NoTensor
    /\ chunk_result = NoTensor
    /\ calls = 0

Init ==
    /\ \E cfg \in Configs, kind \in ImageKinds, mk \in ModelKinds : InitWith(cfg, kind, mk)
    /\ LoadIdle
    /\ RangeIdle
    /\ ChunkIdle

InitIter == LoadIdle /\ RangeIdle /\ ChunkIdle /\ \E cfg \in Configs : InitWith(cfg, 1, "identity")

InitE2E ==
    /\ \E kind \in ImageKinds, mk \in ModelKinds : InitWith(E2EConfig, kind, mk)
    /\ LoadIdle
    /\ RangeIdle
    /\ ChunkIdle

WithChunksize ==
    /\ pc = "new"
    /\ chunksize' = chunk_size
    /\ pc' = "with_chunksize"
    /\ UNCHANGED <<chunkvars, rangevars, loadvars, procvars, image_data, overlap, chunk_padding, input_image_resolution,
                   input_image_padding, marker, finalize_result, iters, loopvars>>

WithChunkPadding ==
    /\ pc = "with_chunksize"
    /\ chunk_padding' = proc_chunk_padding
    /\ pc' = "with_chunk_padding"
    /\ UNCHANGED <<chunkvars, rangevars, loadvars, procvars, image_data, chunksize, overlap, input_image_resolution,
                   input_image_padding, marker, finalize_result, iters, loopvars>>

WithOverlap ==
    /\ pc = "with_chunk_padding"
    /\ overlap' = chunk_overlap
    /\ pc' = "with_overlap"
    /\ UNCHANGED <<chunkvars, rangevars, loadvars, procvars, image_data, chunksize, chunk_padding, input_image_resolution,
                   input_image_padding, marker, finalize_result, iters, loopvars>>

\* The two validations of finalize, in the order the code makes them
FinalizeCheckLax(cs, pad, ov) ==
    IF 2 * pad > cs
    THEN [kind |-> "InvalidPaddingValue", a |-> pad, b |-> cs]
    ELSE LET usable_output_chunksize == cs - 2 * pad
         IN IF 2 * ov > usable_output_chunksize
            THEN [kind |-> "InvalidOverlapValue", a |-> ov, b |-> usable_output_chunksize]
            ELSE [kind |-> "Ok"]

FinalizeCheck(cs, pad, ov) ==
    IF 2 * pad >= cs
    THEN [kind |-> "InvalidPaddingValue", a |-> pad, b |-> cs]
    ELSE LET usable_output_chunksize == cs - 2 * pad
         IN IF 2 * ov > usable_output_chunksize
            THEN [kind |-> "InvalidOverlapValue", a |-> ov, b |-> usable_output_chunksize]
            ELSE [kind |-> "Ok"]

\* padding by the context border only
NeededPaddingBorder(cs) == chunk_padding

\* pad_image: the amount of padding on both spatial axes
NeededPadding(cs) == cs

Finalize ==
    /\ pc = "with_overlap"
    /\ marker = "Builder"
    /\ finalize_result' = FinalizeCheck(chunksize, chunk_padding, overlap)
    /\ IF finalize_result'.kind = "Ok"
       THEN /\ input_image_resolution' = <<image_data.shape[3], image_data.shape[2]>>
            /\ image_data' = PadReflect(image_data, NeededPadding(chunksize))
            /\ input_image_padding' = <<NeededPadding(chunksize), NeededPadding(chunksize)>>
            /\ marker' = "Finalized"
            /\ pc' = "finalized"
       ELSE /\ marker' = "Dropped"
            /\ pc' = "failed"
            /\ UNCHANGED <<image_data, input_image_resolution, input_image_padding>>
    /\ UNCHANGED <<chunkvars, rangevars, loadvars, procvars, chunksize, overlap, chunk_padding, iters, loopvars>>

\* ------------------------------------------- FinalizedImageChunkGenerator
useful_chunksize == chunksize - 2 * chunk_padding

step_sizeNoOverlap == useful_chunksize

step_size == useful_chunksize - overlap

\* iter(): a new iterator over the finalized generator
NewIteratorShared ==
    [live |-> TRUE, current_coords |-> iters[1].current_coords, emitted |-> <<>>,
     nones |-> 0]

NewIterator ==
    [live |-> TRUE, current_coords |-> <<0, 0>>, emitted |-> <<>>, nones |-> 0]

\* ImageChunkIterator::next, lines 64-68: the cursor after a tile was emitted
AdvanceRowFirst(cc) ==
    IF cc[1] + step_size > input_image_resolution[1]
    THEN <<0, cc[2] + step_size>>
    ELSE <<cc[1] + step_size, cc[2]>>

Advance(cc) ==
    IF cc[1] + step_size >= input_image_resolution[1]
    THEN <<0, cc[2] + step_size>>
    ELSE <<cc[1] + step_size, cc[2]>>

\* s![.., y..y + chunksize, x..x + chunksize] lies inside image_data
WindowInBounds(y, x) ==
    /\ 0 <= y /\ y + chunksize <= image_data.shape[2]
    /\ 0 <= x /\ x + chunksize <= image_data.shape[3]

\* ImageChunkIterator::next on cursor cc: the item and the new cursor
IteratorNext(cc) ==
    IF cc[2] < input_image_resolution[2]
    THEN LET x == cc[1] + input_image_padding[1] - chunk_padding
             y == cc[2] + input_image_padding[2] - chunk_padding
         IN [some |-> TRUE,
             panic |-> ~WindowInBounds(y, x),
             item |-> [some |-> TRUE,
                       chunk |-> [y0 |-> y, x0 |-> x, size |-> chunksize],
                       global_coordinate_offset |-> [x |-> cc[1], y |-> cc[2]]],
             coords |-> Advance(cc)]
    ELSE [some |-> FALSE, panic |-> FALSE, item |-> NoChunk, coords |-> cc]

\* ImageChunk::get_usable_range: the rows and columns of the chunk it selects
GetUsableRangeUnclamped(ch) ==
    [y0 |-> chunk_padding, height |-> chunksize - 2 * chunk_padding,
     x0 |-> chunk_padding, width |-> chunksize - 2 * chunk_padding]

GetUsableRange(ch) ==
    LET width == Min(chunksize - 2 * chunk_padding,
                     input_image_resolution[1] - ch.global_coordinate_offset.x)
        height == Min(chunksize - 2 * chunk_padding,
                      input_image_resolution[2] - ch.global_coordinate_offset.y)
    IN [y0 |-> chunk_padding, height |-> height, x0 |-> chunk_padding, width |-> width]

\* The content of the view chunk.chunk
ChunkData(ch) ==
    [c \in 0..(image_data.shape[1] - 1) |-> [j \in 0..(ch.chunk.size - 1) |->
        [i \in 0..(ch.chunk.size - 1) |->
            TensorAt(image_data, image, c, ch.chunk.y0 + j, ch.chunk.x0 + i)]]]

\* ---------------------------------------------------------- free iteration
Iter(i) ==
    /\ pc = "finalized"
    /\ marker = "Finalized"
    /\ iters' = [iters EXCEPT ![i] = NewIterator]
    /\ UNCHANGED <<chunkvars, rangevars, loadvars, procvars, genvars, finalize_result, pc, loopvars>>

Next(i) ==
    /\ pc = "finalized"
    /\ iters[i].live
    /\ iters[i].nones < MaxNone
    /\ LET r == IteratorNext(iters[i].current_coords)
       IN /\ ~r.panic
          /\ iters' = [iters EXCEPT ![i] =
                 [live |-> TRUE,
                  current_coords |-> r.coords,
                  emitted |-> IF r.some THEN Append(@.emitted, r.item) ELSE @.emitted,
                  nones |-> IF r.some THEN @.nones ELSE @.nones + 1]]
    /\ UNCHANGED <<chunkvars, rangevars, loadvars, procvars, genvars, finalize_result, pc, loopvars>>

BuildSteps == WithChunksize \/ WithChunkPadding \/ WithOverlap \/ Finalize

NextIter == BuildSteps \/ (\E i \in Iterators : Iter(i) \/ Next(i))

SpecIter == InitIter /\ [][NextIter]_vars

\* ------------------------------------------------------------ scale_overlap
\* x * 0.5
Half(v) == v \div 2

\* *(&mut chunk.slice_mut(s![.., .., a..b])) *= 0.5
HalveCols(v, a, b) ==
    [c \in DOMAIN v |-> [j \in DOMAIN v[c] |-> [i \in DOMAIN v[c][j] |->
        IF a <= i /\ i < b THEN Half(v[c][j][i]) ELSE v[c][j][i]]]]

\* *(&mut chunk.slice_mut(s![.., a..b, ..])) *= 0.5
HalveRows(v, a, b) ==
    [c \in DOMAIN v |-> [j \in DOMAIN v[c] |-> [i \in DOMAIN v[c][j] |->
        IF a <= j /\ j < b THEN Half(v[c][j][i]) ELSE v[c][j][i]]]]

\* One guarded band of scale_overlap: skipped when its condition is false, an
\* abort when the slice does not fit the axis (ndarray panics on a slice that
\* leaves the axis; len - overlap below zero overflows usize)
Band(prev, enabled, len, halved) ==
    IF prev.panic \/ ~enabled THEN prev
    ELSE IF overlap > len THEN [panic |-> TRUE, data |-> prev.data]
    ELSE [panic |-> FALSE, data |-> halved]

\* scale_overlap with the leading column band not guarded by x > 0
ScaleOverlapLeadingAlways(gc, v) ==
    LET h == Dim(v[0])
        w == Dim(v[0][0])
        b0 == [panic |-> FALSE, data |-> v]
        b1 == Band(b0, TRUE, w, HalveCols(b0.data, 0, overlap))
        b2 == Band(b1, gc.y > 0, h, HalveRows(b1.data, 0, overlap))
        b3 == Band(b2,
                   gc.x + chunksize - 2 * chunk_padding < input_image_resolution[1],
                   w, HalveCols(b2.data, w - overlap, w))
        b4 == Band(b3,
                   gc.y + chunksize - 2 * chunk_padding < input_image_resolution[2],
                   h, HalveRows(b3.data, h - overlap, h))
    IN b4

\* scale_overlap(global_coords, chunk) on a view of shape (C, h, w)
ScaleOverlap(gc, v) ==
    LET h == Dim(v[0])
        w == Dim(v[0][0])
        b0 == [panic |-> FALSE, data |-> v]
        b1 == Band(b0, gc.x > 0, w, HalveCols(b0.data, 0, overlap))
        b2 == Band(b1, gc.y > 0, h, HalveRows(b1.data, 0, overlap))
        b3 == Band(b2,
                   gc.x + chunksize - 2 * chunk_padding < input_image_resolution[1],
                   w, HalveCols(b2.data, w - overlap, w))
        b4 == Band(b3,
                   gc.y + chunksize - 2 * chunk_padding < input_image_resolution[2],
                   h, HalveRows(b3.data, h - overlap, h))
    IN b4

\* ------------------------------------------------------------ process_image
\* what the session computes from the scratch buffer
ModelOutput(mk, t) ==
    IF mk = "identity" THEN t
    ELSE [c \in DOMAIN t |-> [j \in DOMAIN t[c] |-> [i \in DOMAIN t[c][j] |->
             Unit * MaxPixel - t[c][j][i]]]]

\* result_tensor.slice_mut(range)
SliceView(t, r) ==
    [c \in DOMAIN t |-> [j \in 0..(r.height - 1) |-> [i \in 0..(r.width - 1) |->
        t[c][r.y0 + j][r.x0 + i]]]]

\* the tensor after a write through the view
WriteView(t, r, v) ==
    [c \in DOMAIN t |-> [j \in DOMAIN t[c] |-> [i \in DOMAIN t[c][j] |->
        IF /\ r.y0 <= j /\ j < r.y0 + r.height
           /\ r.x0 <= i /\ i < r.x0 + r.width
        THEN v[c][j - r.y0][i - r.x0]
        ELSE t[c][j][i]]]]

\* output_range += usable_output_chunk.permuted_axes([1, 2, 0])
OverwriteAt(out, gc, v) ==
    LET h == Dim(v[0])
        w == Dim(v[0][0])
    IN [y \in DOMAIN out |-> [x \in DOMAIN out[y] |-> [c \in DOMAIN out[y][x] |->
           IF gc.y <= y /\ y < gc.y + h /\ gc.x <= x /\ x < gc.x + w
           THEN v[c][y - gc.y][x - gc.x]
           ELSE out[y][x][c]]]]

AddAt(out, gc, v) ==
    LET h == Dim(v[0])
        w == Dim(v[0][0])
    IN [y \in DOMAIN out |-> [x \in DOMAIN out[y] |-> [c \in DOMAIN out[y][x] |->
           IF gc.y <= y /\ y < gc.y + h /\ gc.x <= x /\ x < gc.x + w
           THEN out[y][x][c] + v[c][y - gc.y][x - gc.x]
           ELSE out[y][x][c]]]]

\* (v * 255.0) as u8: truncation, saturating at the ends of u8
ToU8(v) ==
    LET q == v \div Unit
    IN IF q < 0 THEN 0 ELSE IF q > MaxPixel THEN MaxPixel ELSE q

PrepareLoop ==
    /\ pc = "finalized"
    /\ output_image' = Zeros3(image.height, image.width, NumChannels)
    /\ input_data' = Zeros3(NumChannels, chunk_size, chunk_size)
    /\ iters' = [iters EXCEPT ![1] = NewIterator]
    /\ pc' = "next"
    /\ UNCHANGED <<chunkvars, rangevars, loadvars, procvars, genvars, finalize_result, chunk, result_tensor, usable,
                   returned>>

ReturnConfigError ==
    /\ pc = "failed"
    /\ returned' = [kind |-> "Err", error |-> "ChunkGeneratorError",
                    source |-> finalize_result]
    /\ pc' = "returned"
    /\ UNCHANGED <<chunkvars, rangevars, loadvars, procvars, genvars, finalize_result, iters, chunk, input_data,
                   result_tensor, usable, output_image>>

LoopNext ==
    /\ pc = "next"
    /\ LET r == IteratorNext(iters[1].current_coords)
       IN /\ iters' = [iters EXCEPT ![1] =
                 [live |-> TRUE,
                  current_coords |-> r.coords,
                  emitted |-> IF r.some THEN Append(@.emitted, r.item) ELSE @.emitted,
                  nones |-> IF r.some THEN @.nones ELSE @.nones + 1]]
          /\ chunk' = r.item
          /\ pc' = IF r.panic THEN "panicked" ELSE IF r.some THEN "copy" ELSE "convert"
    /\ UNCHANGED <<chunkvars, rangevars, loadvars, procvars, genvars, finalize_result, input_data, result_tensor, usable,
                   output_image, returned>>

\* the next tile fetched while the current one is copied (tiles overlapping)
CopyIntoScratchPrefetch ==
    /\ pc = "copy"
    /\ input_data' = ChunkData(chunk)
    /\ LET r == IteratorNext(iters[1].current_coords)
       IN iters' = [iters EXCEPT ![1] =
              [live |-> TRUE,
               current_coords |-> r.coords,
               emitted |-> IF r.some THEN Append(@.emitted, r.item) ELSE @.emitted,
               nones |-> IF r.some THEN @.nones ELSE @.nones + 1]]
    /\ pc' = "run"
    /\ UNCHANGED <<chunkvars, rangevars, loadvars, procvars, genvars, finalize_result, chunk, result_tensor,
                   usable, output_image, returned>>

CopyIntoScratch ==
    /\ pc = "copy"
    /\ input_data' = ChunkData(chunk)
    /\ pc' = "run"
    /\ UNCHANGED <<chunkvars, rangevars, loadvars, procvars, genvars, finalize_result, iters, chunk, result_tensor,
                   usable, output_image, returned>>

\* a failed run recorded, the loop going on to the next tile
RunInferenceContinues ==
    /\ pc = "run"
    /\ \E ok \in BOOLEAN :
          IF ok
          THEN /\ result_tensor' = ModelOutput(model_kind, input_data)
               /\ pc' = "scale"
               /\ UNCHANGED returned
          ELSE /\ returned' = [kind |-> "Err", error |-> "SessionError",
                               source |-> NoResult]
               /\ pc' = "next"
               /\ UNCHANGED result_tensor
    /\ UNCHANGED <<chunkvars, rangevars, loadvars, procvars, genvars, finalize_result, iters, chunk, input_data, usable,
                   output_image>>

RunInference ==
    /\ pc = "run"
    /\ \E ok \in BOOLEAN :
          IF ok
          THEN /\ result_tensor' = ModelOutput(model_kind, input_data)
               /\ pc' = "scale"
               /\ UNCHANGED returned
          ELSE /\ returned' = [kind |-> "Err", error |-> "SessionError",
                               source |-> NoResult]
               /\ pc' = "returned"
               /\ UNCHANGED result_tensor
    /\ UNCHANGED <<chunkvars, rangevars, loadvars, procvars, genvars, finalize_result, iters, chunk, input_data, usable,
                   output_image>>

ScaleOverlapStep ==
    /\ pc = "scale"
    /\ LET r == GetUsableRange(chunk)
           b == ScaleOverlap(chunk.global_coordinate_offset, SliceView(result_tensor, r))
       IN /\ usable' = r
          /\ IF b.panic
             THEN pc' = "panicked" /\ UNCHANGED result_tensor
             ELSE pc' = "accumulate" /\ result_tensor' = WriteView(result_tensor, r, b.data)
    /\ UNCHANGED <<chunkvars, rangevars, loadvars, procvars, genvars, finalize_result, iters, chunk, input_data,
                   output_image, returned>>

Accumulate ==
    /\ pc = "accumulate"
    /\ LET gc == chunk.global_coordinate_offset
       IN IF gc.y + usable.height <= Dim(output_image)
             /\ gc.x + usable.width <= Dim(output_image[0])
          THEN /\ output_image' = AddAt(output_image, gc, SliceView(result_tensor, usable))
               /\ pc' = "next"
          ELSE /\ pc' = "panicked"
               /\ UNCHANGED output_image
    /\ UNCHANGED <<chunkvars, rangevars, loadvars, procvars, genvars, finalize_result, iters, chunk, input_data,
                   result_tensor, usable, returned>>

Finish ==
    /\ pc = "convert"
    /\ returned' = [kind |-> "Ok",
                    image |-> [y \in DOMAIN output_image |-> [x \in DOMAIN output_image[y] |->
                        [c \in DOMAIN output_image[y][x] |-> ToU8(output_image[y][x][c])]]]]
    /\ pc' = "returned"
    /\ UNCHANGED <<chunkvars, rangevars, loadvars, procvars, genvars, finalize_result, iters, chunk, input_data,
                   result_tensor, usable, output_image>>

LoopSteps ==
    \/ PrepareLoop \/ LoopNext \/ CopyIntoScratch
    \/ RunInference \/ ScaleOverlapStep \/ Accumulate \/ Finish

NextImage == BuildSteps \/ ReturnConfigError \/ LoopSteps

Spec == Init /\ [][NextImage]_vars

\* The end-to-end scenario: its configuration is valid, so finalize succeeds
NextE2E == BuildSteps \/ LoopSteps

SpecE2E == InitE2E /\ [][NextE2E]_vars

\* ============================================================ ModelRunner
\* A declared tensor (ValueInfoProto): its name and what get_shape() gives, the
\* dims as a sequence (axis i of the code is dims[i + 1]) or an error
ValueInfo(name, dims) == [name |-> name, shape_ok |-> TRUE, dims |-> dims]
NoShapeInfo(name) == [name |-> name, shape_ok |-> FALSE, dims |-> <<>>]

NoneOpt == [some |-> FALSE]
SomeOpt(v) == [some |-> TRUE, value |-> v]

\* shape.dims.get(idx)
DimsGet(dims, idx) == IF idx < Len(dims) THEN SomeOpt(dims[idx + 1]) ELSE NoneOpt

\* ModelChannelOrder::get_width_idx / get_height_idx / get_channel_idx
get_width_idxSwapped(order, batch) ==
    LET with_batch == IF order = "NCHW" THEN 2 ELSE 1
    IN IF batch THEN with_batch ELSE with_batch - 1

get_width_idx(order, batch) ==
    LET with_batch == IF order = "NCHW" THEN 3 ELSE 2
    IN IF batch THEN with_batch ELSE with_batch - 1

get_height_idx(order, batch) ==
    LET with_batch == IF order = "NCHW" THEN 2 ELSE 1
    IN IF batch THEN with_batch ELSE with_batch - 1

get_channel_idx(order, batch) ==
    LET with_batch == IF order = "NCHW" THEN 1 ELSE 3
    IN IF batch THEN with_batch ELSE with_batch - 1

\* ModelChannelOrder::get_width / get_height / get_batchsize / get_channels
get_width(order, dims) == DimsGet(dims, get_width_idx(order, Len(dims) = 4))

get_height(order, dims) == DimsGet(dims, get_height_idx(order, Len(dims) = 4))

get_batchsize(order, dims) == IF Len(dims) = 4 THEN DimsGet(dims, 0) ELSE NoneOpt

get_channels(order, dims) == DimsGet(dims, get_channel_idx(order, Len(dims) = 4))

\* ModelRunner::get_graph_input; Shape::dim(i) aborts on an axis the shape lacks
get_graph_input(inputs) ==
    IF Len(inputs) > 1 THEN [kind |-> "Err", error |-> "ModelInputError"]
    ELSE IF Len(inputs) = 0 THEN [kind |-> "Panic"]
    ELSE IF ~inputs[1].shape_ok THEN [kind |-> "Err", error |-> "ModelParameterError"]
    ELSE LET input_shape == inputs[1].dims
             input_name == inputs[1].name
         IN IF Len(input_shape) < 1 THEN [kind |-> "Panic"]
            ELSE IF input_shape[1] # 1
            THEN [kind |-> "Err", error |-> "InvalidInputShape", shape |-> input_shape]
            ELSE IF Len(input_shape) < 2 THEN [kind |-> "Panic"]
            ELSE IF input_shape[2] = 3
            THEN [kind |-> "Ok", input_shape |-> input_shape, input_name |-> input_name,
                  channel_order |-> "NCHW"]
            ELSE IF Len(input_shape) < 4 THEN [kind |-> "Panic"]
            ELSE IF input_shape[4] = 3
            THEN [kind |-> "Ok", input_shape |-> input_shape, input_name |-> input_name,
                  channel_order |-> "NHWC"]
            ELSE [kind |-> "Err", error |-> "InvalidInputShape", shape |-> input_shape]

\* ModelRunner::get_scale_factor; the u64 division aborts on a zero divisor
get_scale_factor(input_shape, model_channel_order, output_shape) ==
    IF /\ get_batchsize(model_channel_order, input_shape)
            = get_batchsize(model_channel_order, output_shape)
       /\ get_channels(model_channel_order, input_shape)
            = get_channels(model_channel_order, output_shape)
    THEN LET in_width == get_width(model_channel_order, input_shape)
             out_width == get_width(model_channel_order, output_shape)
             in_height == get_height(model_channel_order, input_shape)
             out_height == get_height(model_channel_order, output_shape)
         IN IF ~in_width.some \/ ~out_width.some \/ ~in_height.some \/ ~out_height.some
            THEN [kind |-> "None"]
            ELSE IF in_width.value = 0 \/ in_height.value = 0 THEN [kind |-> "Panic"]
            ELSE LET xscale == out_width.value \div in_width.value
                     yscale == out_height.value \div in_height.value
                 IN IF /\ xscale = yscale
                       /\ in_width.value * xscale = out_width.value
                       /\ in_height.value * yscale = out_height.value
                    THEN [kind |-> "Some", value |-> xscale]
                    ELSE [kind |-> "None"]
    ELSE [kind |-> "None"]

\* .filter(|o| o.get_shape().map(|s| &s == input_shape).unwrap_or_default()).next(),
\* scanning from output k
RECURSIVE ExactMatch(_, _, _)
ExactMatch(outputs, input_shape, k) ==
    IF k > Len(outputs) THEN NoneOpt
    ELSE IF outputs[k].shape_ok /\ outputs[k].dims = input_shape
    THEN SomeOpt([name |-> outputs[k].name, scale |-> 1])
    ELSE ExactMatch(outputs, input_shape, k + 1)

\* .find_map(|output| ... get_scale_factor(..).map(|scale| (name, scale))),
\* scanning from output k
RECURSIVE ScaledMatch(_, _, _, _)
ScaledMatch(outputs, input_shape, channel_order, k) ==
    IF k > Len(outputs) THEN [kind |-> "None"]
    ELSE IF ~outputs[k].shape_ok
    THEN ScaledMatch(outputs, input_shape, channel_order, k + 1)
    ELSE LET f == get_scale_factor(input_shape, channel_order, outputs[k].dims)
         IN IF f.kind = "Panic" THEN [kind |-> "Panic"]
            ELSE IF f.kind = "Some"
            THEN [kind |-> "Some", value |-> [name |-> outputs[k].name, scale |-> f.value]]
            ELSE ScaledMatch(outputs, input_shape, channel_order, k + 1)

\* ModelRunner::get_matching_output
get_matching_outputNoExact(outputs, input_shape, channel_order) ==
    LET scaled == ScaledMatch(outputs, input_shape, channel_order, 1)
    IN IF scaled.kind = "Panic" THEN [kind |-> "Panic"]
       ELSE IF scaled.kind = "Some"
       THEN [kind |-> "Ok", output_name |-> scaled.value.name,
             model_scale |-> scaled.value.scale]
       ELSE [kind |-> "Err", error |-> "NoSuitableOutput"]

get_matching_output(outputs, input_shape, channel_order) ==
    LET exact_match == ExactMatch(outputs, input_shape, 1)
    IN IF exact_match.some
       THEN [kind |-> "Ok", output_name |-> exact_match.value.name,
             model_scale |-> exact_match.value.scale]
       ELSE LET scaled == ScaledMatch(outputs, input_shape, channel_order, 1)
            IN IF scaled.kind = "Panic" THEN [kind |-> "Panic"]
               ELSE IF scaled.kind = "Some"
               THEN [kind |-> "Ok", output_name |-> scaled.value.name,
                     model_scale |-> scaled.value.scale]
               ELSE [kind |-> "Err", error |-> "NoSuitableOutput"]

\* ModelChannelOrder::translate_shape_to_chunksize (Shape::dim aborts past the rank)
translate_shape_to_chunksize(order, dims) ==
    IF Len(dims) < 4 THEN [kind |-> "Panic"]
    ELSE IF order = "NCHW"
    THEN [kind |-> "Ok", width |-> dims[4], height |-> dims[3]]
    ELSE [kind |-> "Ok", width |-> dims[3], height |-> dims[2]]

\* ModelChannelOrder::scratchpad_buffer_layout
scratchpad_buffer_layout(order, cs) ==
    IF order = "NCHW" THEN <<3, cs.height, cs.width>> ELSE <<cs.height, cs.width, 3>>

\* ------------------------------------------------- the models explored
InputDims == {1, 2, 3}
Multipliers == {1, 2}
MaxOutputs == 2

InputShapes ==
    {<<b, c, h, w>> : b \in InputDims, c \in InputDims, h \in InputDims, w \in InputDims}
        \cup {<<c, h, w>> : c \in InputDims, h \in InputDims, w \in InputDims}

GraphInputs ==
    {<<>>, <<NoShapeInfo("input")>>}
        \cup {<<ValueInfo("input", d)>> : d \in InputShapes}
        \cup {<<ValueInfo("input", d), ValueInfo("input2", d)>> : d \in InputShapes}

\* Output shapes around an input shape d: every axis kept or multiplied (the
\* first axis only alone), an axis one longer, spatial axes of zero, an axis
\* dropped
OutputShapes(d) ==
    LET r == Len(d)
        scaled == {[i \in 1..r |-> d[i] * m[i]] :
                     m \in {f \in [1..r -> Multipliers] :
                              f[1] = 1 \/ \A i \in 2..r : f[i] = 1}}
        longer == {[d EXCEPT ![r] = @ + 1],
                   [d EXCEPT ![r] = @ + 1, ![r - 1] = @ + 1]}
        zeroed == {[d EXCEPT ![r] = 0, ![r - 1] = 0], [d EXCEPT ![2] = 0, ![3] = 0]}
    IN scaled \cup longer \cup zeroed \cup {Tail(d)}

OutputInfos(d) == {NoShapeInfo("output")} \cup {ValueInfo("output", o) : o \in OutputShapes(d)}

\* every declared output has its own name
Named(outs) == [k \in 1..Len(outs) |-> [outs[k] EXCEPT !.name = <<"output", k>>]]

\* The outputs vary for the models with one input of batch size 1
VariedOutputs(ins) == Len(ins) = 1 /\ ins[1].shape_ok /\ ins[1].dims[1] = 1

\* --------------------------------------------------------- ModelRunner::new
InitLoad ==
    /\ InitWith([width |-> 1, height |-> 1, chunk_size |-> 1, chunk_padding |-> 0,
                 chunk_overlap |-> 0], 1, "identity")
    /\ RangeIdle
    /\ ChunkIdle
    /\ graph = [inputs |-> <<>>, outputs |-> <<>>]
    /\ force_tract \in BOOLEAN
    /\ load_pc = "start"
    /\ stream_pos = "start"
    /\ graph_input = NoResult
    /\ matching_output = NoResult
    /\ runner_chunksize = NoResult
    /\ new_result = NoResult

pipevars == <<procvars, genvars, finalize_result, iters, pc, loopvars>>

\* wonnx::onnx::ModelProto::parse_from_reader(input)?
ParseModel ==
    /\ load_pc = "start"
    /\ stream_pos = "start"
    /\ stream_pos' = "end"
    /\ \/ /\ \E ins \in GraphInputs :
                IF VariedOutputs(ins)
                THEN \E n \in 0..MaxOutputs :
                         \E outs \in [1..n -> OutputInfos(ins[1].dims)] :
                             graph' = [inputs |-> ins, outputs |-> Named(outs)]
                ELSE graph' = [inputs |-> ins, outputs |-> <<>>]
          /\ load_pc' = "parsed"
          /\ UNCHANGED new_result
       \/ /\ new_result' = [kind |-> "Err", error |-> "ParseError"]
          /\ load_pc' = "returned"
          /\ UNCHANGED graph
    /\ UNCHANGED <<chunkvars, rangevars, pipevars, force_tract, graph_input, matching_output, runner_chunksize>>

GetGraphInputStep ==
    /\ load_pc = "parsed"
    /\ graph_input' = get_graph_input(graph.inputs)
    /\ IF graph_input'.kind = "Ok"
       THEN load_pc' = "have_input" /\ UNCHANGED new_result
       ELSE IF graph_input'.kind = "Err"
       THEN /\ load_pc' = "returned"
            /\ new_result' = [kind |-> "Err", error |-> graph_input'.error]
       ELSE load_pc' = "panicked" /\ UNCHANGED new_result
    /\ UNCHANGED <<chunkvars, rangevars, pipevars, graph, force_tract, stream_pos, matching_output,
                   runner_chunksize>>

GetMatchingOutputStep ==
    /\ load_pc = "have_input"
    /\ matching_output' = get_matching_output(graph.outputs, graph_input.input_shape,
                                              graph_input.channel_order)
    /\ IF matching_output'.kind = "Ok"
       THEN load_pc' = "have_output" /\ UNCHANGED new_result
       ELSE IF matching_output'.kind = "Err"
       THEN /\ load_pc' = "returned"
            /\ new_result' = [kind |-> "Err", error |-> matching_output'.error]
       ELSE load_pc' = "panicked" /\ UNCHANGED new_result
    /\ UNCHANGED <<chunkvars, rangevars, pipevars, graph, force_tract, stream_pos, graph_input,
                   runner_chunksize>>

TranslateShape ==
    /\ load_pc = "have_output"
    /\ runner_chunksize' = translate_shape_to_chunksize(graph_input.channel_order,
                                                        graph_input.input_shape)
    /\ load_pc' = IF runner_chunksize'.kind = "Panic" THEN "panicked"
                  ELSE IF force_tract THEN "rewind" ELSE "wonnx"
    /\ UNCHANGED <<chunkvars, rangevars, pipevars, graph, force_tract, stream_pos, graph_input,
                   matching_output, new_result>>

\* Ok(Self { backend: WonnxRunner { .. }, chunksize, model_channel_order, model_scale })
WonnxRunnerValue ==
    [kind |-> "Ok",
     backend |-> "WonnxRunner",
     input_name |-> graph_input.input_name,
     output_name |-> matching_output.output_name,
     input_scratchpad |-> scratchpad_buffer_layout(graph_input.channel_order,
                                                   runner_chunksize),
     chunksize |-> [width |-> runner_chunksize.width, height |-> runner_chunksize.height],
     model_channel_order |-> graph_input.channel_order,
     model_scale |-> matching_output.model_scale]

\* Ok(Self { backend: TractRunner { .. }, chunksize, model_channel_order, model_scale })
TractRunnerValue ==
    [kind |-> "Ok",
     backend |-> "TractRunner",
     input_scratchpad |-> scratchpad_buffer_layout(graph_input.channel_order,
                                                   runner_chunksize),
     chunksize |-> [width |-> runner_chunksize.width, height |-> runner_chunksize.height],
     model_channel_order |-> graph_input.channel_order,
     model_scale |-> matching_output.model_scale]

\* Session::from_model(wonnx_model).await? : the failure handed to the caller
CreateWonnxSessionPropagates ==
    /\ load_pc = "wonnx"
    /\ ~force_tract
    /\ \/ /\ new_result' = WonnxRunnerValue
          /\ load_pc' = "returned"
       \/ /\ load_pc' = "returned"
          /\ new_result' = [kind |-> "Err", error |-> "SessionError"]
    /\ UNCHANGED <<chunkvars, rangevars, pipevars, graph, force_tract, stream_pos, graph_input,
                   matching_output, runner_chunksize>>

\* Session::from_model(wonnx_model).await: the session, or the logged failure
CreateWonnxSession ==
    /\ load_pc = "wonnx"
    /\ ~force_tract
    /\ \/ /\ new_result' = WonnxRunnerValue
          /\ load_pc' = "returned"
       \/ /\ load_pc' = "rewind"
          /\ UNCHANGED new_result
    /\ UNCHANGED <<chunkvars, rangevars, pipevars, graph, force_tract, stream_pos, graph_input,
                   matching_output, runner_chunksize>>

\* input.rewind().unwrap()
RewindInput ==
    /\ load_pc = "rewind"
    /\ stream_pos' = "start"
    /\ load_pc' = "tract"
    /\ UNCHANGED <<chunkvars, rangevars, pipevars, graph, force_tract, graph_input, matching_output,
                   runner_chunksize, new_result>>

\* tract_onnx::onnx().model_for_read(input).unwrap()...into_runnable().unwrap()
BuildTractModel ==
    /\ load_pc = "tract"
    /\ stream_pos' = "end"
    /\ \/ /\ stream_pos = "start"
          /\ new_result' = TractRunnerValue
          /\ load_pc' = "returned"
       \/ /\ load_pc' = "panicked"
          /\ UNCHANGED new_result
    /\ UNCHANGED <<chunkvars, rangevars, pipevars, graph, force_tract, graph_input, matching_output,
                   runner_chunksize>>

NextLoad ==
    \/ ParseModel \/ GetGraphInputStep \/ GetMatchingOutputStep \/ TranslateShape
    \/ CreateWonnxSession \/ RewindInput \/ BuildTractModel

SpecLoad == InitLoad /\ [][NextLoad]_vars

\* ========================================================= ModelValueRange
\* An f32 is held as an exact fraction num/den (den > 0, lowest terms), or as
\* the IEEE results of a division by zero: "nan" and "inf". Rounding to 24 bits
\* is left out, and -0.0 is held as 0 (the two compare equal).
RECURSIVE GCD(_, _)
GCD(a, b) == IF b = 0 THEN a ELSE GCD(b, a % b)

Abs(n) == IF n < 0 THEN 0 - n ELSE n

Rat(n, d) ==
    LET g == GCD(Abs(n), d)
    IN [kind |-> "num", num |-> n \div g, den |-> d \div g]

NaN == [kind |-> "nan"]
Inf(neg) == [kind |-> "inf", neg |-> neg]

FMul(a, b) ==
    IF a.kind # "num" \/ b.kind # "num" THEN NaN
    ELSE LET g1 == GCD(Abs(a.num), b.den)
             g2 == GCD(Abs(b.num), a.den)
         IN Rat((a.num \div g1) * (b.num \div g2), (a.den \div g2) * (b.den \div g1))

FAdd(a, b) ==
    IF a.kind # "num" \/ b.kind # "num" THEN NaN
    ELSE LET g == GCD(a.den, b.den)
         IN Rat(a.num * (b.den \div g) + b.num * (a.den \div g), a.den * (b.den \div g))

FNeg(a) == IF a.kind = "num" THEN [a EXCEPT !.num = 0 - @] ELSE a

FSub(a, b) == FAdd(a, FNeg(b))

FDiv(a, b) ==
    IF a.kind # "num" \/ b.kind # "num" THEN NaN
    ELSE IF b.num = 0
    THEN IF a.num = 0 THEN NaN ELSE Inf(a.num < 0)
    ELSE FMul(a, [kind |-> "num", num |-> IF b.num < 0 THEN 0 - b.den ELSE b.den,
                  den |-> Abs(b.num)])

U16Max == 65535

\* ModelValueRange::symmetric / ModelValueRange::asymmetric
symmetric(max_abs_value) ==
    [value_mode |-> "Symmetric", max_abs_value |-> max_abs_value]

asymmetric(max_abs_value) ==
    [value_mode |-> "Asymmetric", max_abs_value |-> max_abs_value]

\* ModelValueRange::pixel_value_to_model
pixel_value_to_model(self, p) ==
    LET asymmetric_value == FMul(FDiv(Rat(p, 1), Rat(U16Max, 1)), self.max_abs_value)
    IN IF self.value_mode = "Symmetric"
       THEN FSub(FMul(asymmetric_value, Rat(2, 1)), self.max_abs_value)
       ELSE asymmetric_value

\* ModelValueRange::normalize_model_value
normalize_model_valueNoHalving(self, v) ==
    LET centered == IF self.value_mode = "Symmetric"
                    THEN FAdd(v, self.max_abs_value)
                    ELSE v
    IN FDiv(centered, self.max_abs_value)

normalize_model_value(self, v) ==
    LET centered == IF self.value_mode = "Symmetric"
                    THEN FDiv(FAdd(v, self.max_abs_value), Rat(2, 1))
                    ELSE v
    IN FDiv(centered, self.max_abs_value)

\* <f32 as FromStr>::from_str on texts without exponent, "inf" or "nan":
\* Sign? (Digit+ | Digit+ '.' Digit* | Digit* '.' Digit+)
Digits == {"0", "1", "2", "3", "4", "5", "6", "7", "8", "9"}

DigitValue(c) ==
    CASE c = "0" -> 0 [] c = "1" -> 1 [] c = "2" -> 2 [] c = "3" -> 3 [] c = "4" -> 4
      [] c = "5" -> 5 [] c = "6" -> 6 [] c = "7" -> 7 [] c = "8" -> 8 [] c = "9" -> 9

RECURSIVE Pow10(_)
Pow10(n) == IF n = 0 THEN 1 ELSE 10 * Pow10(n - 1)

\* the number written by the digits of s, the '.' skipped
RECURSIVE Mantissa(_, _)
Mantissa(s, acc) ==
    IF s = <<>> THEN acc
    ELSE IF Head(s) = "." THEN Mantissa(Tail(s), acc)
    ELSE Mantissa(Tail(s), 10 * acc + DigitValue(Head(s)))

ParseFloatError == [kind |-> "Err", error |-> "ParseFloatError"]

ParseF32(s) ==
    IF s = <<>> THEN ParseFloatError
    ELSE LET signed == Head(s) \in {"+", "-"}
             negative == Head(s) = "-"
             number == IF signed THEN Tail(s) ELSE s
             points == {k \in DOMAIN number : number[k] = "."}
             digits == {k \in DOMAIN number : number[k] \in Digits}
         IN IF \/ digits = {}
               \/ Cardinality(points) > 1
               \/ digits \cup points # DOMAIN number
            THEN ParseFloatError
            ELSE LET fraction == IF points = {} THEN 0
                                 ELSE Len(number) - (CHOOSE k \in points : TRUE)
                     m == Mantissa(number, 0)
                 IN [kind |-> "Ok",
                     value |-> Rat(IF negative THEN 0 - m ELSE m, Pow10(fraction))]

\* impl FromStr for ModelValueRange
from_strWholeText(s) ==
    LET max == ParseF32(s)
    IN IF Len(s) >= 2 /\ s[1] = "+" /\ s[2] = "-"
       THEN IF max.kind = "Ok" THEN [kind |-> "Ok", range |-> symmetric(max.value)] ELSE max
       ELSE IF max.kind = "Ok" THEN [kind |-> "Ok", range |-> asymmetric(max.value)] ELSE max

from_str(s) ==
    IF Len(s) >= 2 /\ s[1] = "+" /\ s[2] = "-"
    THEN LET max == ParseF32(SubSeq(s, 3, Len(s)))
         IN IF max.kind = "Ok" THEN [kind |-> "Ok", range |-> symmetric(max.value)] ELSE max
    ELSE LET max == ParseF32(s)
         IN IF max.kind = "Ok" THEN [kind |-> "Ok", range |-> asymmetric(max.value)] ELSE max

\* The texts and pixel values explored
MaxTextLen == 4
TextChars == {"+", "-", "0", "1", ".", "a", "b", "c"}
Texts == UNION {[1..n -> TextChars] : n \in 0..MaxTextLen}
PixelValues == {0, 1, 255, 32768, 65534, U16Max}

InitRange ==
    /\ InitWith([width |-> 1, height |-> 1, chunk_size |-> 1, chunk_padding |-> 0,
                 chunk_overlap |-> 0], 1, "identity")
    /\ LoadIdle
    /\ ChunkIdle
    /\ range_text \in Texts
    /\ range_pc = "text"
    /\ range = NoResult
    /\ pixel_value = 0
    /\ model_value = NoResult

othervars == <<procvars, genvars, finalize_result, iters, pc, loopvars, loadvars>>

FromStr ==
    /\ range_pc = "text"
    /\ range' = from_str(range_text)
    /\ range_pc' = IF range'.kind = "Ok" THEN "range" ELSE "failed"
    /\ UNCHANGED <<chunkvars, othervars, range_text, pixel_value, model_value>>

PixelValueToModel ==
    /\ range_pc = "range"
    /\ \E p \in PixelValues :
          /\ pixel_value' = p
          /\ model_value' = pixel_value_to_model(range.range, p)
    /\ range_pc' = "model"
    /\ UNCHANGED <<chunkvars, othervars, range_text, range>>

NormalizeModelValue ==
    /\ range_pc = "model"
    /\ model_value' = normalize_model_value(range.range, model_value)
    /\ range_pc' = "normalized"
    /\ UNCHANGED <<chunkvars, othervars, range_text, range, pixel_value>>

NextRange == FromStr \/ PixelValueToModel \/ NormalizeModelValue

SpecRange == InitRange /\ [][NextRange]_vars

\* ============================================== ModelRunner::process_chunk
\* A 3-d array is a function t[i][j][l] on 0-based indices
Shape3(t) == <<Dim(t), Dim(t[0]), Dim(t[0][0])>>

\* t.permuted_axes(perm): axis k of the result is axis perm[k + 1] of t
PermutedAxes(t, perm) ==
    LET old == Shape3(t)
        new == <<old[perm[1] + 1], old[perm[2] + 1], old[perm[3] + 1]>>
    IN [i \in 0..(new[1] - 1) |-> [j \in 0..(new[2] - 1) |-> [l \in 0..(new[3] - 1) |->
           LET ix == <<i, j, l>>
               src == [a \in 0..2 |-> ix[CHOOSE k \in 1..3 : perm[k] = a]]
           IN t[src[0]][src[1]][src[2]]]]]

\* input.assign_to(&mut self.input_scratchpad): every element of the buffer
AssignToKeepingBorder(input, buffer) ==
    [i \in DOMAIN buffer |-> [j \in DOMAIN buffer[i] |-> [l \in DOMAIN buffer[i][j] |->
        IF i = Dim(buffer) - 1 /\ j = Dim(buffer[i]) - 1 /\ l = Dim(buffer[i][j]) - 1
        THEN buffer[i][j][l] ELSE input[i][j][l]]]]

AssignTo(input, buffer) ==
    [i \in DOMAIN buffer |-> [j \in DOMAIN buffer[i] |-> [l \in DOMAIN buffer[i][j] |->
        input[i][j][l]]]]

\* The network: a tensor of output_shape computed from the scratch buffer, each
\* input element spread over the cells it is scaled to ("nearest"), with a
\* different value in each of those cells ("detail")
RunModel(mk, buffer, output_shape) ==
    LET in == Shape3(buffer)
        r == [a \in 1..3 |-> output_shape[a] \div in[a]]
    IN [i \in 0..(output_shape[1] - 1) |-> [j \in 0..(output_shape[2] - 1) |->
           [l \in 0..(output_shape[3] - 1) |->
               LET v == buffer[i \div r[1]][j \div r[2]][l \div r[3]]
               IN IF mk = "nearest" THEN v
                  ELSE v + Unit * ((i % r[1]) + 2 * (j % r[2]) + 3 * (l % r[3]))]]]

\* ModelRunner::scale_chunk: the inner loops over dy and dx, from cell k on
RECURSIVE WindowSum(_, _, _, _, _, _)
WindowSum(data, c, y, x, scale, k) ==
    IF k >= scale * scale THEN 0
    ELSE data[c][scale * y + (k \div scale)][scale * x + (k % scale)]
           + WindowSum(data, c, y, x, scale, k + 1)

\* the loops over c, y and x from window n on, writing into the buffer they
\* read; backwards takes the windows in the opposite order
RECURSIVE ScaleWindows(_, _, _, _)
ScaleWindows(data, scale, n, backwards) ==
    LET shape == Shape3(data)
        rows == shape[2] \div scale
        cols == shape[3] \div scale
        total == shape[1] * rows * cols
        m == IF backwards THEN total - 1 - n ELSE n
        c == m \div (rows * cols)
        y == (m \div cols) % rows
        x == m % cols
    IN IF n >= total THEN data
       ELSE ScaleWindows(
                [data EXCEPT ![c][y][x] =
                    WindowSum(data, c, y, x, scale, 0) \div (scale * scale)],
                scale, n + 1, backwards)

\* chunk.slice_move(s![.., ..shape[1] / scale, ..shape[2] / scale])
SliceMove(data, rows, cols) ==
    [c \in DOMAIN data |-> [y \in 0..(rows - 1) |-> [x \in 0..(cols - 1) |->
        data[c][y][x]]]]

scale_chunkBackwards(data, scale) ==
    SliceMove(ScaleWindows(data, scale, 0, TRUE),
              Shape3(data)[2] \div scale, Shape3(data)[3] \div scale)

scale_chunk(data, scale) ==
    SliceMove(ScaleWindows(data, scale, 0, FALSE),
              Shape3(data)[2] \div scale, Shape3(data)[3] \div scale)

\* process_chunk: model_order_input
ModelOrderInput(order, input) ==
    IF order = "NCHW" THEN input ELSE PermutedAxes(input, <<1, 2, 0>>)

\* process_chunk: model_output_shape
ModelOutputShapeSwapped(order, scale, shape) ==
    [a \in 1..3 |->
        IF a - 1 = get_channel_idx(order, FALSE) \/ a - 1 = get_height_idx(order, FALSE)
        THEN shape[a] * scale ELSE shape[a]]

ModelOutputShape(order, scale, shape) ==
    [a \in 1..3 |->
        IF a - 1 = get_width_idx(order, FALSE) \/ a - 1 = get_height_idx(order, FALSE)
        THEN shape[a] * scale ELSE shape[a]]

\* process_chunk: nchw_output and the downscaling
NchwOutput(order, scale, output) ==
    LET nchw_output == IF order = "NCHW" THEN output
                       ELSE PermutedAxes(output, <<2, 0, 1>>)
    IN IF scale > 1 THEN scale_chunk(nchw_output, scale) ELSE nchw_output

\* The runners and tiles explored
MaxCalls == 2
TileDims == {1, 2}
ModelScales == {1, 2, 3}
TileKinds == {1, 2, 3}
BackendModels == {"nearest", "detail"}

TileOf(kind, cs) ==
    [c \in 0..(NumChannels - 1) |-> [y \in 0..(cs.height - 1) |-> [x \in 0..(cs.width - 1) |->
        Unit * ((kind * (1 + c + 3 * x + 7 * y)) % 11)]]]

InitChunk ==
    /\ InitWith([width |-> 1, height |-> 1, chunk_size |-> 1, chunk_padding |-> 0,
                 chunk_overlap |-> 0], 1, "identity")
    /\ LoadIdle
    /\ RangeIdle
    /\ \E order \in {"NCHW", "NHWC"}, scale \in ModelScales,
          backend \in {"WonnxRunner", "TractRunner"}, h \in TileDims, w \in TileDims :
          /\ runner = [backend |-> backend, model_channel_order |-> order,
                       model_scale |-> scale, chunksize |-> [width |-> w, height |-> h]]
          /\ LET layout == scratchpad_buffer_layout(order, [width |-> w, height |-> h])
             IN input_scratchpad = Zeros3(layout[1], layout[2], layout[3])
    /\ backend_model \in BackendModels
    /\ chunk_pc = "ready"
    /\ tile = NoTensor
    /\ model_output_shape = <<>>
    /\ model_output = NoTensor
    /\ chunk_result = NoTensor
    /\ calls = 0

nonchunkvars == <<procvars, genvars, finalize_result, iters, pc, loopvars, loadvars, rangevars>>

\* process_chunk is called with a tile of the runner's chunksize
ProcessChunk ==
    /\ chunk_pc = "ready"
    /\ calls < MaxCalls
    /\ \E kind \in TileKinds : tile' = TileOf(kind, runner.chunksize)
    /\ model_output_shape' =
           ModelOutputShape(runner.model_channel_order, runner.model_scale,
                            Shape3(ModelOrderInput(runner.model_channel_order, tile')))
    /\ chunk_pc' = "assign"
    /\ UNCHANGED <<nonchunkvars, runner, backend_model, input_scratchpad, model_output,
                   chunk_result, calls>>

\* WonnxRunner::process_chunk / TractRunner::process_chunk: the copy
AssignToScratchpad ==
    /\ chunk_pc = "assign"
    /\ input_scratchpad' =
           AssignTo(ModelOrderInput(runner.model_channel_order, tile), input_scratchpad)
    /\ chunk_pc' = "run"
    /\ UNCHANGED <<nonchunkvars, runner, backend_model, tile, model_output_shape,
                   model_output, chunk_result, calls>>

\* session.run(..).await.unwrap() / (self.model)(..): the tensor, or an abort
RunBackend ==
    /\ chunk_pc = "run"
    /\ \/ /\ model_output' = RunModel(backend_model, input_scratchpad, model_output_shape)
          /\ chunk_pc' = "output"
       \/ /\ chunk_pc' = "panicked"
          /\ UNCHANGED model_output
    /\ UNCHANGED <<nonchunkvars, runner, backend_model, input_scratchpad, tile,
                   model_output_shape, chunk_result, calls>>

\* process_chunk: back to CHW order, scaled down, returned
ReturnChunk ==
    /\ chunk_pc = "output"
    /\ chunk_result' = NchwOutput(runner.model_channel_order, runner.model_scale,
                                  model_output)
    /\ calls' = calls + 1
    /\ chunk_pc' = "ready"
    /\ UNCHANGED <<nonchunkvars, runner, backend_model, input_scratchpad, tile,
                   model_output_shape, model_output>>

NextChunk == ProcessChunk \/ AssignToScratchpad \/ RunBackend \/ ReturnChunk

SpecChunk == InitChunk /\ [][NextChunk]_vars

\* ===================================================== ImageProcessor::new
\* let default_padding = chunk_size / 7
default_paddingHalf(size) == size \div 2

default_padding(size) == size \div 7

\* let default_overlap = default_padding / 10
default_overlap(padding) == padding \div 10

\* The model chunk sizes explored
MaxModelChunk == 150

\* process_image of a processor that new() built for a model of chunk size c
InitDefaults ==
    /\ \E c \in 1..MaxModelChunk, w \in {1, 2} :
          InitWith([width |-> w, height |-> 1, chunk_size |-> c,
                    chunk_padding |-> default_padding(c),
                    chunk_overlap |-> default_overlap(default_padding(c))],
                   1, "identity")
    /\ LoadIdle
    /\ RangeIdle
    /\ ChunkIdle

SpecDefaults == InitDefaults /\ [][BuildSteps]_vars

\* ================================================================ claims
\* The quantities the claims speak of, from the generator's fields
W == input_image_resolution[1]
H == input_image_resolution[2]
UsableSize == chunksize - 2 * chunk_padding
GridStep == (chunksize - 2 * chunk_padding) - overlap
CeilDiv(a, b) == (a + b - 1) \div b
IsPrefix(s, t) == Len(s) <= Len(t) /\ \A k \in 1..Len(s) : s[k] = t[k]
Exhausted(it) == it.live /\ it.nones > 0
LoopDone == pc = "convert" \/ (pc = "returned" /\ returned.kind = "Ok")

\* The blend weight each emitted tile gives to each pixel: scale_overlap applied
\* to a tile of ones of the tile's usable shape, added at the tile's offset
OnesView(r) == [c \in {0} |-> [j \in 0..(r.height - 1) |-> [i \in 0..(r.width - 1) |-> Unit]]]

RECURSIVE WeightSum(_, _)
WeightSum(tiles, k) ==
    IF k = 0 THEN Zeros3(H, W, 1)
    ELSE AddAt(WeightSum(tiles, k - 1), tiles[k].global_coordinate_offset,
               ScaleOverlap(tiles[k].global_coordinate_offset,
                            OnesView(GetUsableRange(tiles[k]))).data)

\* C1: once every tile of an image at least one usable tile size wide and high
\* has been blended and added, the blend weights at every pixel sum to exactly 1.
C1_BlendWeightIsOne ==
    (LoopDone /\ W >= UsableSize /\ H >= UsableSize) =>
        LET wsum == WeightSum(iters[1].emitted, Len(iters[1].emitted))
        IN \A y \in 0..(H - 1), x \in 0..(W - 1) : wsum[y][x][0] = Unit

\* C2: every emitted tile's clamped usable region is non-empty and inside the
\* image, and the regions of a complete iteration cover every pixel.
C2_UsableRegionsCoverImage ==
    \A i \in Iterators :
        LET tiles == iters[i].emitted
            X(k) == tiles[k].global_coordinate_offset.x
            Y(k) == tiles[k].global_coordinate_offset.y
            R(k) == GetUsableRange(tiles[k])
        IN /\ \A k \in 1..Len(tiles) :
                /\ W - X(k) >= 0 /\ H - Y(k) >= 0
                /\ R(k).width = Min(UsableSize, W - X(k))
                /\ R(k).height = Min(UsableSize, H - Y(k))
                /\ R(k).width >= 1 /\ R(k).height >= 1
                /\ X(k) + R(k).width <= W
                /\ Y(k) + R(k).height <= H
           /\ Exhausted(iters[i]) =>
                \A py \in 0..(H - 1), px \in 0..(W - 1) :
                    \E k \in 1..Len(tiles) :
                        /\ X(k) <= px /\ px < X(k) + R(k).width
                        /\ Y(k) <= py /\ py < Y(k) + R(k).height

C2_Witness ==
    \E i \in Iterators :
        /\ Exhausted(iters[i])
        /\ Len(iters[i].emitted) >= 4
        /\ \E k \in 1..Len(iters[i].emitted) :
              /\ GetUsableRange(iters[i].emitted[k]).width < UsableSize
              /\ GetUsableRange(iters[i].emitted[k]).height < UsableSize

\* C3: finalize succeeds exactly on 2*chunk_padding < chunksize and
\* 2*overlap <= chunksize - 2*chunk_padding; otherwise it returns the matching
\* error (the padding error first) and has padded and recorded nothing.
C3_FinalizeValidation ==
    finalize_result.kind # "none" =>
        /\ finalize_result.kind = "Ok" <=>
              (2 * chunk_padding < chunksize /\ 2 * overlap <= chunksize - 2 * chunk_padding)
        /\ 2 * chunk_padding >= chunksize =>
              finalize_result = [kind |-> "InvalidPaddingValue", a |-> chunk_padding,
                                 b |-> chunksize]
        /\ (2 * chunk_padding < chunksize /\ 2 * overlap > chunksize - 2 * chunk_padding) =>
              finalize_result = [kind |-> "InvalidOverlapValue", a |-> overlap,
                                 b |-> chunksize - 2 * chunk_padding]
        /\ finalize_result.kind # "Ok" =>
              /\ image_data = ToImageData(image)
              /\ input_image_resolution = <<0, 0>>
              /\ input_image_padding = <<0, 0>>
              /\ marker # "Finalized"
        /\ finalize_result.kind = "Ok" => marker = "Finalized"

C3_Witness ==
    /\ finalize_result.kind = "InvalidPaddingValue"
    /\ 2 * overlap > chunksize - 2 * chunk_padding
    /\ chunksize = chunk_size /\ overlap >= 1

\* C4: in the end-to-end scenario with an identity inference step, the
\* accumulator after the last tile equals the input tensor at every pixel.
C4_EndToEndIdentity ==
    (LoopDone /\ model_kind = "identity") =>
        \A y \in 0..(image.height - 1), x \in 0..(image.width - 1),
           c \in 0..(NumChannels - 1) :
            output_image[y][x][c] = InputTensorAt(image, c, y, x)

C4_Witness ==
    /\ LoopDone /\ model_kind = "identity"
    /\ image.height = 100 /\ image.width = 100 /\ Dim(output_image[0][0]) = 3
    /\ chunksize = 50 /\ chunk_padding = 10 /\ overlap = 4
    /\ Len(iters[1].emitted) = 16

\* C5: a fresh iterator starts at (0,0) and emits the grid points
\* (i*step, j*step) inside the image, each once, row by row; the cursor resets
\* x and advances y at the end of a row; iteration ends when y reaches H.
GridColumns == Cardinality({i \in 0..W : i * GridStep < W})
GridRows == Cardinality({j \in 0..H : j * GridStep < H})
GridPoint(k) == <<((k - 1) % GridColumns) * GridStep, ((k - 1) \div GridColumns) * GridStep>>

C5_RasterOrder ==
    \A i \in Iterators :
        iters[i].live =>
            LET it == iters[i]
                n == Len(it.emitted)
            IN /\ n <= GridColumns * GridRows
               /\ \A k \in 1..n :
                     /\ it.emitted[k].global_coordinate_offset.x = GridPoint(k)[1]
                     /\ it.emitted[k].global_coordinate_offset.y = GridPoint(k)[2]
               /\ n < GridColumns * GridRows =>
                     /\ it.current_coords = GridPoint(n + 1)
                     /\ it.nones = 0
               /\ n = GridColumns * GridRows =>
                     /\ it.current_coords[1] = 0
                     /\ it.current_coords[2] >= H

C5_Witness ==
    \E i \in Iterators :
        /\ Exhausted(iters[i])
        /\ GridColumns >= 2 /\ GridRows >= 2 /\ GridStep >= 2
        /\ W % GridStep # 0
        /\ Len(iters[i].emitted) = GridColumns * GridRows

\* C6: step >= 1, so iteration yields exactly ceil(W/step) * ceil(H/step)
\* tiles and then None; every later next() returns None and keeps the cursor.
C6_CountInv ==
    marker = "Finalized" =>
        /\ GridStep >= 1
        /\ \A i \in Iterators :
              /\ Len(iters[i].emitted) <= CeilDiv(W, GridStep) * CeilDiv(H, GridStep)
              /\ Exhausted(iters[i]) =>
                    Len(iters[i].emitted) = CeilDiv(W, GridStep) * CeilDiv(H, GridStep)

C6_NoneIsFinal ==
    \A i \in Iterators :
        (Exhausted(iters[i]) /\ iters'[i].nones > iters[i].nones) =>
            /\ iters'[i].current_coords = iters[i].current_coords
            /\ iters'[i].emitted = iters[i].emitted

C6_FiniteIteration == [](C6_CountInv) /\ [][C6_NoneIsFinal]_vars

C6_Witness ==
    \E i \in Iterators :
        /\ iters[i].nones >= 2
        /\ Len(iters[i].emitted) >= 6
        /\ overlap >= 1

\* C7: iterating never changes the finalized generator, and iterators over it
\* are independent: whatever their interleaving, each emits the same sequence.
C7_SameSequence ==
    \A i, j \in Iterators :
        (iters[i].live /\ iters[j].live) =>
            /\ (Len(iters[i].emitted) <= Len(iters[j].emitted) =>
                   IsPrefix(iters[i].emitted, iters[j].emitted))
            /\ (Exhausted(iters[i]) /\ Exhausted(iters[j]) =>
                   iters[i].emitted = iters[j].emitted)

C7_GeneratorFrame == marker = "Finalized" => UNCHANGED genvars

C7_IterationFrame == [](C7_SameSequence) /\ [][C7_GeneratorFrame]_vars

C7_Witness ==
    /\ Exhausted(iters[1])
    /\ iters[2].live
    /\ Len(iters[2].emitted) >= 1
    /\ Len(iters[2].emitted) < Len(iters[1].emitted)
    /\ iters[2].emitted[1].chunk.y0 = chunksize - chunk_padding


\* ------------------------------------------------------------- C8, C9, C10
InputShape == graph_input.input_shape
ChannelOrder == graph_input.channel_order
Outputs == graph.outputs

\* the outputs whose declared shape equals the input shape
ExactOutputs == {k \in DOMAIN Outputs : Outputs[k].shape_ok /\ Outputs[k].dims = InputShape}

\* the outputs that have a scale factor
ScaledOutputs ==
    {k \in DOMAIN Outputs :
       /\ Outputs[k].shape_ok
       /\ get_scale_factor(InputShape, ChannelOrder, Outputs[k].dims).kind = "Some"}

First(S) == CHOOSE k \in S : \A j \in S : k <= j

OutputSelected == graph_input.kind = "Ok" /\ matching_output # NoResult

AxisTable(order, rank) ==
    IF rank = 4
    THEN IF order = "NCHW"
         THEN [batch |-> 1, channels |-> 2, height |-> 3, width |-> 4]
         ELSE [batch |-> 1, height |-> 2, width |-> 3, channels |-> 4]
    ELSE IF order = "NCHW"
         THEN [batch |-> 0, channels |-> 1, height |-> 2, width |-> 3]
         ELSE [batch |-> 0, height |-> 1, width |-> 2, channels |-> 3]

\* the size of that axis, -1 when the shape does not have it
Quantity(order, dims, q) ==
    LET axis == AxisTable(order, Len(dims))[q]
    IN IF axis >= 1 /\ axis <= Len(dims) THEN dims[axis] ELSE 0 - 1

\* the multiples k with output width = k * input width and output height =
\* k * input height
CommonMultiples(order, in, out) ==
    {k \in 0..Quantity(order, out, "width") :
       /\ Quantity(order, in, "width") >= 0
       /\ Quantity(order, in, "height") >= 0
       /\ Quantity(order, out, "height") >= 0
       /\ Quantity(order, out, "width") = k * Quantity(order, in, "width")
       /\ Quantity(order, out, "height") = k * Quantity(order, in, "height")}

ClaimedLayout(input) ==
    LET dims == input.dims
        ok(order) == [kind |-> "Ok", input_shape |-> dims, input_name |-> input.name,
                      channel_order |-> order]
        invalid == [kind |-> "Err", error |-> "InvalidInputShape", shape |-> dims]
    IN IF Len(dims) = 4 /\ dims[1] # 1 THEN invalid
       ELSE IF (Len(dims) = 4 /\ dims[2] = 3) \/ (Len(dims) = 3 /\ dims[1] = 3) THEN ok("NCHW")
       ELSE IF dims[Len(dims)] = 3 THEN ok("NHWC")
       ELSE invalid

\* C10: for a declared input shape of rank 3 or 4 the layout is NCHW if axis 1
\* (rank 4) or axis 0 (rank 3) is 3, otherwise NHWC if the last axis is 3,
\* otherwise detection fails with InvalidInputShape; the channel-first test
\* comes first, and a rank-4 shape whose batch size is not 1 is rejected with
\* InvalidInputShape.
C10_LayoutDetection ==
    (/\ graph_input # NoResult
     /\ Len(graph.inputs) = 1
     /\ graph.inputs[1].shape_ok
     /\ Len(graph.inputs[1].dims) \in {3, 4})
        => graph_input = ClaimedLayout(graph.inputs[1])


\* ----------------------------------------------------------------- C11, C12
\* The input shapes the loader's error message names: [1,3,h,w] or [1,h,w,3]
SupportedInputShape(dims) ==
    Len(dims) = 4 /\ dims[1] = 1 /\ (dims[2] = 3 \/ dims[4] = 3)

\* The model-shape error of a parsed graph, "none" when it has none (a graph
\* without inputs, or whose input declares no shape, is none of the three)
ShapeError ==
    IF Len(graph.inputs) > 1 THEN "ModelInputError"
    ELSE IF Len(graph.inputs) = 0 \/ ~graph.inputs[1].shape_ok THEN "none"
    ELSE IF ~SupportedInputShape(graph.inputs[1].dims) THEN "InvalidInputShape"
    ELSE IF /\ \A k \in DOMAIN Outputs :
                 ~(Outputs[k].shape_ok /\ Outputs[k].dims = graph.inputs[1].dims)
            /\ \A k \in DOMAIN Outputs :
                 Outputs[k].shape_ok =>
                     get_scale_factor(graph.inputs[1].dims,
                                      IF graph.inputs[1].dims[2] = 3 THEN "NCHW" ELSE "NHWC",
                                      Outputs[k].dims).kind # "Some"
    THEN "NoSuitableOutput"
    ELSE "none"

BackendSteps == {"wonnx", "rewind", "tract"}

\* C11: a model with more than one input, an unsupported input shape or no
\* suitable output makes ModelRunner::new return ModelInputError,
\* InvalidInputShape or NoSuitableOutput before either backend is constructed,
\* whatever force_tract is.
C11_ShapeErrorsAtLoad ==
    (load_pc # "start" /\ ShapeError # "none") =>
        /\ load_pc \in {"parsed", "have_input", "returned"}
        /\ load_pc = "have_input" => ShapeError = "NoSuitableOutput"
        /\ load_pc = "returned" => new_result = [kind |-> "Err", error |-> ShapeError]

\* C12: the runner holds the wonnx backend only if force_tract is false and the
\* session was built; with force_tract no session is attempted; a failed
\* session is not returned: the stream is rewound, the tract backend is built
\* from the start of the stream, and new returns Ok with the chunksize, channel
\* order and scale found before.
C12_Inv ==
    /\ force_tract => load_pc # "wonnx"
    /\ (new_result.kind = "Ok" /\ new_result.backend = "WonnxRunner") => ~force_tract
    /\ new_result.kind = "Ok" =>
           /\ new_result.chunksize = [width |-> runner_chunksize.width,
                                      height |-> runner_chunksize.height]
           /\ new_result.model_channel_order = graph_input.channel_order
           /\ new_result.model_scale = matching_output.model_scale
    /\ new_result.kind = "Err" =>
           new_result.error \in {"ParseError", "ModelInputError", "ModelParameterError",
                                 "InvalidInputShape", "NoSuitableOutput"}

C12_Step ==
    /\ (new_result' # new_result /\ new_result'.kind = "Ok"
          /\ new_result'.backend = "WonnxRunner") => load_pc = "wonnx"
    /\ (load_pc = "wonnx" /\ load_pc' # "returned") =>
           load_pc' = "rewind" /\ new_result' = NoResult
    /\ load_pc = "rewind" => load_pc' = "tract" /\ stream_pos' = "start"
    /\ (load_pc = "tract" /\ load_pc' = "returned") =>
           /\ stream_pos = "start"
           /\ new_result'.kind = "Ok"
           /\ new_result'.backend = "TractRunner"
    /\ load_pc \in BackendSteps =>
           UNCHANGED <<graph, graph_input, matching_output, runner_chunksize>>

Emitted == iters[1].emitted
InFlight == {"copy", "run", "scale", "accumulate"}

C13_Step ==
    \* a tile is produced only between tiles, and nothing else happens then
    /\ iters'[1].emitted # Emitted =>
           /\ pc = "next"
           /\ pc' \in {"copy", "panicked"}
           /\ iters'[1].emitted = Append(Emitted, chunk')
           /\ UNCHANGED <<input_data, result_tensor, output_image>>
    \* the steps of one tile follow each other
    /\ pc' = "copy" => pc = "next"
    /\ pc' = "run" => pc = "copy"
    /\ pc' = "scale" => pc = "run"
    /\ pc' = "accumulate" => pc = "scale"
    /\ pc' = "next" => pc \in {"finalized", "accumulate"}
    \* the tile in flight is the last one produced
    /\ pc \in InFlight =>
           /\ chunk = Emitted[Len(Emitted)]
           /\ UNCHANGED <<iters, chunk>>
    \* the scratch buffer is written by the copy step only, not during a run
    /\ input_data' # input_data => pc \in {"finalized", "copy"}
    /\ pc = "copy" => input_data' = ChunkData(Emitted[Len(Emitted)])
    /\ pc = "run" => UNCHANGED <<input_data, output_image>>
    \* the accumulator takes the tile in flight, when all its steps are done
    /\ output_image' # output_image => pc \in {"finalized", "accumulate"}
    /\ (pc = "accumulate" /\ pc' = "next") =>
           output_image' = AddAt(output_image, Emitted[Len(Emitted)].global_coordinate_offset,
                                 SliceView(result_tensor, usable))

\* C13: the tiles of process_image are handled one at a time in iteration
\* order: copy into the scratch buffer, inference, scale_overlap and
\* accumulation of tile k are all done before tile k+1 is produced and copied;
\* the scratch buffer is not written while a run is pending.
C13_Sequential == [][C13_Step]_vars

\* The second tile is being copied after the first was accumulated
C13_Witness ==
    /\ pc = "run"
    /\ Len(Emitted) = 2
    /\ input_data = ChunkData(Emitted[2])
    /\ output_image # Zeros3(image.height, image.width, NumChannels)

C14_Inv ==
    /\ returned.kind = "Err" => pc = "returned" /\ "image" \notin DOMAIN returned
    /\ marker = "Dropped" =>
           /\ pc \in {"failed", "returned"}
           /\ returned.kind # "Ok"
           /\ Emitted = <<>>
           /\ ~iters[1].live
           /\ output_image = NoTensor
    /\ returned.kind = "Ok" =>
           /\ pc = "returned"
           /\ Exhausted(iters[1])
           /\ Len(Emitted) = GridColumns * GridRows

C14_Step ==
    /\ pc # "returned"
    /\ pc = "failed" => returned'.kind = "Err" /\ pc' = "returned"
    /\ (pc = "run" /\ pc' # "scale") =>
           /\ returned'.kind = "Err"
           /\ pc' = "returned"
           /\ UNCHANGED <<iters, output_image>>
    /\ returned'.kind = "Ok" => pc = "convert"
    /\ pc' = "convert" =>
           /\ pc = "next"
           /\ iters'[1].emitted = Emitted
           /\ iters'[1].nones = iters[1].nones + 1

\* C14: when finalize fails or the inference of a tile fails, process_image
\* returns an error, produces and runs no later tile and returns no output
\* image; an image is returned only after the iterator is exhausted and every
\* tile went through.
C14_FailureAborts == [](C14_Inv) /\ [][C14_Step]_vars

\* The inference of the second tile failed after the first was accumulated
C14_Witness ==
    /\ returned.kind = "Err"
    /\ returned.error = "SessionError"
    /\ Len(Emitted) = 2
    /\ output_image # Zeros3(image.height, image.width, NumChannels)


\* ------------------------------------------------------------ C15, C16, C17
MaxAbs == range.range.max_abs_value

Prefixed == Len(range_text) >= 2 /\ range_text[1] = "+" /\ range_text[2] = "-"

\* the part of the text that holds the bound
BoundText == IF Prefixed THEN SubSeq(range_text, 3, Len(range_text)) ELSE range_text

\* C16: a text that starts with "+-" gives the symmetric range whose bound is
\* the number after those two characters, any other text the asymmetric range
\* whose bound is the number the whole text holds; "+-10" gives symmetric(10.0),
\* "10" gives asymmetric(10.0); a bound that is no number ("abc") gives a parse
\* failure.
C16_Parse ==
    range_pc # "text" =>
        /\ IF ParseF32(BoundText).kind = "Ok"
           THEN /\ range.kind = "Ok"
                /\ range.range.value_mode = IF Prefixed THEN "Symmetric" ELSE "Asymmetric"
                /\ range.range.max_abs_value = ParseF32(BoundText).value
           ELSE range = ParseFloatError
        /\ range_text = <<"+", "-", "1", "0">> =>
               range = [kind |-> "Ok", range |-> symmetric(Rat(10, 1))]
        /\ range_text = <<"1", "0">> =>
               range = [kind |-> "Ok", range |-> asymmetric(Rat(10, 1))]
        /\ range_text = <<"+", "-", "1", ".", "0">> =>
               range = [kind |-> "Ok", range |-> symmetric(Rat(1, 1))]
        /\ range_text = <<"a", "b", "c">> => range = ParseFloatError
        /\ range_text = <<"+", "-">> => range = ParseFloatError
        /\ range_text = <<"+", "-", "a">> => range = ParseFloatError

\* "+-10" was parsed
C16_Witness ==
    /\ range_pc = "range"
    /\ range_text = <<"+", "-", "1", "0">>
    /\ range.range.value_mode = "Symmetric"
    /\ range.range.max_abs_value = Rat(10, 1)

\* C17: parsing fails whenever the bound is not a valid non-negative float: no
\* parsed range, symmetric or asymmetric, has a negative max_abs_value.
C17_NoNegativeBound ==
    (range_pc # "text" /\ range.kind = "Ok") => MaxAbs.num >= 0


\* ------------------------------------------------------------ C18, C19, C20
RECURSIVE HalfTimes(_, _)
HalfTimes(v, n) == IF n = 0 THEN v ELSE HalfTimes(Half(v), n - 1)

Count(b) == IF b THEN 1 ELSE 0

\* The bands of a tile at global offset gc whose sub-region is len long on the
\* axis, as C18 states them
LeadingBand(g, k) == g > 0 /\ k < overlap
TrailingBand(g, extent, len, k) ==
    g + (chunksize - 2 * chunk_padding) < extent /\ k >= len - overlap

\* C18: scale_overlap halves an element once for each enabled band that holds
\* it and leaves the others alone: leading x (first overlap columns) iff x > 0,
\* leading y iff y > 0, trailing x (last overlap columns) iff
\* x + chunksize - 2*chunk_padding < width, trailing y likewise; on the tiles of
\* iter() no element is halved twice along one axis, so the factor is 1, 1/2
\* or 1/4.
C18_Bands ==
    pc = "accumulate" =>
        LET gc == chunk.global_coordinate_offset
            before == ModelOutput(model_kind, input_data)
        IN \A c \in DOMAIN result_tensor :
             \A j \in DOMAIN result_tensor[c] :
               \A i \in DOMAIN result_tensor[c][j] :
                 IF /\ usable.y0 <= j /\ j < usable.y0 + usable.height
                    /\ usable.x0 <= i /\ i < usable.x0 + usable.width
                 THEN LET lx == LeadingBand(gc.x, i - usable.x0)
                          tx == TrailingBand(gc.x, W, usable.width, i - usable.x0)
                          ly == LeadingBand(gc.y, j - usable.y0)
                          ty == TrailingBand(gc.y, H, usable.height, j - usable.y0)
                      IN /\ ~(lx /\ tx)
                         /\ ~(ly /\ ty)
                         /\ result_tensor[c][j][i] =
                              HalfTimes(before[c][j][i],
                                        Count(lx) + Count(tx) + Count(ly) + Count(ty))
                 ELSE result_tensor[c][j][i] = before[c][j][i]

\* A tile with a left and an upper neighbour: its first element is quartered
C18_Witness ==
    /\ pc = "accumulate"
    /\ overlap > 0
    /\ chunk.global_coordinate_offset.x > 0
    /\ chunk.global_coordinate_offset.y > 0
    /\ ModelOutput(model_kind, input_data)[0][usable.y0][usable.x0] >= Unit
    /\ result_tensor[0][usable.y0][usable.x0]
         = Half(Half(ModelOutput(model_kind, input_data)[0][usable.y0][usable.x0]))

\* C19: on every tile of iter() the band slices scale_overlap takes stay inside
\* the get_usable_range sub-region: an axis with an enabled band is at least
\* overlap long, and the pipeline does not abort inside scale_overlap.
C19_BandsFit ==
    pc = "scale" =>
        LET gc == chunk.global_coordinate_offset
            r == GetUsableRange(chunk)
        IN /\ (gc.x > 0 \/ gc.x + (chunksize - 2 * chunk_padding) < W) => r.width >= overlap
           /\ (gc.y > 0 \/ gc.y + (chunksize - 2 * chunk_padding) < H) => r.height >= overlap
           /\ ~ScaleOverlap(gc, SliceView(result_tensor, r)).panic

\* C20: the window of the tile at (x, y) is chunksize x chunksize, starts at
\* (x + input_padding - chunk_padding, y + input_padding - chunk_padding) with
\* input_padding = chunksize, does not underflow and stays inside the padded
\* tensor of (H + 2*chunksize) x (W + 2*chunksize); its element
\* (chunk_padding + j, chunk_padding + i) is the image pixel (y + j, x + i)
\* wherever that lies in the image, so the usable region lines up with the
\* accumulator region.
C20_Window ==
    \A n \in Iterators :
        iters[n].live =>
            /\ ~IteratorNext(iters[n].current_coords).panic
            /\ input_image_padding = <<chunksize, chunksize>>
            /\ image_data.shape = <<NumChannels, H + 2 * chunksize, W + 2 * chunksize>>
            /\ \A k \in 1..Len(iters[n].emitted) :
                 LET t == iters[n].emitted[k]
                     x == t.global_coordinate_offset.x
                     y == t.global_coordinate_offset.y
                     r == GetUsableRange(t)
                 IN /\ t.chunk.size = chunksize
                    /\ t.chunk.x0 = x + chunksize - chunk_padding
                    /\ t.chunk.y0 = y + chunksize - chunk_padding
                    /\ t.chunk.x0 >= 0 /\ t.chunk.y0 >= 0
                    /\ t.chunk.x0 + chunksize <= W + 2 * chunksize
                    /\ t.chunk.y0 + chunksize <= H + 2 * chunksize
                    /\ r.y0 = chunk_padding /\ r.x0 = chunk_padding
                    /\ y + r.height <= H /\ x + r.width <= W
                    /\ \A c \in 0..(NumChannels - 1) :
                         \A j \in 0..(r.height - 1) :
                           \A i \in 0..(r.width - 1) :
                             TensorAt(image_data, image, c, t.chunk.y0 + chunk_padding + j,
                                      t.chunk.x0 + chunk_padding + i)
                               = InputTensorAt(image, c, y + j, x + i)

\* A clamped tile in the last column and row of a grid of at least four tiles
C20_Witness ==
    \E n \in Iterators :
        /\ iters[n].live
        /\ Len(iters[n].emitted) >= 4
        /\ chunk_padding > 0
        /\ LET t == iters[n].emitted[Len(iters[n].emitted)]
           IN /\ t.global_coordinate_offset.x > 0
              /\ t.global_coordinate_offset.y > 0
              /\ GetUsableRange(t).width < chunksize - 2 * chunk_padding


\* ------------------------------------------------------- C21, C22, C23, C24
Order == runner.model_channel_order
Scale == runner.model_scale
Returned == chunk_pc = "ready" /\ calls > 0

\* the backend's output in (C, H, W) order, before any downscaling
NchwBefore ==
    IF Order = "NCHW" THEN model_output ELSE PermutedAxes(model_output, <<2, 0, 1>>)

\* The block average computed out of place: element (c, y, x) is the mean of
\* the original s x s window at rows s*y.. and columns s*x..
BlockAverage(orig, s) ==
    [c \in DOMAIN orig |-> [y \in 0..((Dim(orig[c]) \div s) - 1) |->
        [x \in 0..((Dim(orig[c][0]) \div s) - 1) |->
            WindowSum(orig, c, y, x, s, 0) \div (s * s)]]]

\* C21: scale_chunk on a (C, s*H, s*W) tensor returns the (C, H, W) tensor of
\* the averages of the original s x s windows: the computation in place equals
\* the block average computed out of place.
C21_ScaleChunk ==
    chunk_pc \in {"output", "ready"} /\ model_output # NoTensor =>
        /\ scale_chunk(NchwBefore, Scale) = BlockAverage(NchwBefore, Scale)
        /\ Shape3(scale_chunk(NchwBefore, Scale)) = Shape3(tile)
        /\ (Returned /\ Scale > 1) => chunk_result = BlockAverage(NchwBefore, Scale)

\* A 2x2 tile scaled by 2 or more, with different values inside each window
C21_Witness ==
    /\ Returned
    /\ Scale > 1
    /\ backend_model = "detail"
    /\ Shape3(tile) = <<NumChannels, 2, 2>>
    /\ NchwBefore[0][0][0] # NchwBefore[0][1][1]
    /\ chunk_result = BlockAverage(NchwBefore, Scale)

\* C22: for either channel order and any scale k >= 1 the backend is asked for
\* (C, k*H, k*W) under NCHW and (k*H, k*W, C) under NHWC, and the returned tile
\* is in (C, H, W) order with the shape of the input; the permutations
\* [1,2,0] and [2,0,1] are inverse to each other, so an identity backend with
\* k = 1 gives the input back.
C22_Transparent ==
    tile # NoTensor =>
        LET shape == Shape3(tile)
        IN /\ model_output_shape =
                IF Order = "NCHW"
                THEN <<shape[1], Scale * shape[2], Scale * shape[3]>>
                ELSE <<Scale * shape[2], Scale * shape[3], shape[1]>>
           /\ PermutedAxes(PermutedAxes(tile, <<1, 2, 0>>), <<2, 0, 1>>) = tile
           /\ Returned => Shape3(chunk_result) = shape
           /\ (Returned /\ backend_model = "nearest" /\ Scale = 1) =>
                  chunk_result = tile

\* A channel-last runner of scale 1 returned a 2 high, 1 wide tile unchanged
C22_Witness ==
    /\ Returned
    /\ Order = "NHWC"
    /\ Scale = 1
    /\ backend_model = "nearest"
    /\ Shape3(tile) = <<NumChannels, 2, 1>>
    /\ model_output_shape = <<2, 1, NumChannels>>
    /\ chunk_result = tile

\* what a runner with a fresh scratch buffer returns for the tile
ResultOfTile ==
    LET input == ModelOrderInput(Order, tile)
    IN NchwOutput(Order, Scale,
                  RunModel(backend_model, input,
                           ModelOutputShape(Order, Scale, Shape3(input))))

C23_Inv ==
    /\ chunk_pc = "run" => input_scratchpad = ModelOrderInput(Order, tile)
    /\ Returned => chunk_result = ResultOfTile

C23_Step ==
    chunk_pc = "assign" =>
        \A i \in DOMAIN input_scratchpad' :
            \A j \in DOMAIN input_scratchpad'[i] :
                \A l \in DOMAIN input_scratchpad'[i][j] :
                    input_scratchpad'[i][j][l] = ModelOrderInput(Order, tile)[i][j][l]

\* C23: every process_chunk call overwrites every element of the scratch
\* buffer with the current tile before the backend runs, so the result for a
\* tile depends on that tile only, not on the tiles processed before.
C23_NoCrossTileState == [](C23_Inv) /\ [][C23_Step]_vars

\* The second call returned; the buffer held the first tile when it began
C23_Witness ==
    /\ Returned
    /\ calls = 2
    /\ input_scratchpad = ModelOrderInput(Order, tile)
    /\ chunk_result = ResultOfTile

\* C24: for every chunk size c >= 1 the defaults chunk_padding = c / 7 and
\* overlap = chunk_padding / 10 satisfy 2*chunk_padding < c and
\* 2*overlap <= c - 2*chunk_padding, so finalize does not fail with them.
C24_DefaultsValid ==
    /\ 2 * proc_chunk_padding < chunk_size
    /\ 2 * chunk_overlap <= chunk_size - 2 * proc_chunk_padding
    /\ pc # "failed"
    /\ pc = "finalized" =>
           /\ finalize_result = [kind |-> "Ok"]
           /\ chunksize = chunk_size
           /\ chunk_padding = proc_chunk_padding
           /\ overlap = chunk_overlap

\* finalize accepted the defaults of a model of chunk size 140: padding 20,
\* overlap 2
C24_Witness ==
    /\ pc = "finalized"
    /\ chunksize = 140
    /\ chunk_padding = 20
    /\ overlap = 2

====
